---- MODULE Spec2Model ----
(***************************************************************************)
(* The task scheduling engine of Mia: TaskScheduler (task_scheduler.py),   *)
(* the one-shot task store, and Scheduler (scheduler.py), the background   *)
(* loop with its periodic registry.                                        *)
(*                                                                         *)
(* Threads: the daemon thread running Scheduler._run_scheduler, modelled   *)
(* one shared-memory access per step; the callers of the public            *)
(* operations (schedule_task, add_periodic_task, cancel_task,              *)
(* execute_task), one step per call; one caller inside list_tasks, whose   *)
(* two dict iterations are modelled item by item.                          *)
(*                                                                         *)
(* Python objects: every schedule_task / add_periodic_task call builds a   *)
(* new dict object; theap and pheap hold them, the registries map a name   *)
(* to an object, and a local variable of a thread keeps the object it was  *)
(* handed even after the registry has replaced it.                         *)
(*                                                                         *)
(* A dict is a sequence of (key, object) in insertion order.  An iterator  *)
(* is the number of live entries behind its cursor and the size the dict   *)
(* had when the iterator was made; next() raises RuntimeError when the     *)
(* size differs.  Time is counted in sleep periods of the loop (60 s).     *)
(* Fields named h_* are history: they record what happened and no code     *)
(* reads them.  An object that no registry holds any more is never read    *)
(* again (a thread that still holds it only writes to it), so its slot in  *)
(* the heap is overwritten with a fixed record and later writes to it are  *)
(* dropped.                                                                *)
(***************************************************************************)
EXTENDS Integers, Sequences, FiniteSets, TLC

\* ---------------------------------------------------------------- bounds
\* the clock stops at MaxTime
MaxTime == 3
\* public calls made while the loop runs
MaxOps == 2
\* public calls made in a row while the loop sleeps
MaxCalls == 4
\* public calls on one name made while the loop runs
MaxNarrowOps == 3

\* ------------------------------------------------------ program constants
\* time.sleep(60): one tick period, the unit of time of the model
TickPeriod == 1

Names == {"a", "b"}
Details == {"d1", "d2"}
Intervals == {TickPeriod, TickPeriod + TickPeriod}
\* a periodic action either returns or raises; the third action a registry
\* can hold is "cycle", Scheduler.run_self_optimization_cycle
Actions == {"noop", "raises"}
\* a run_time that is no datetime (a string, None): schedule_task and
\* add_periodic_task store what they are given
NotATime == 0 - 9
\* an interval that is no timedelta
NotAnInterval == 0 - 9
\* scheduler.py:100: the name of the self-optimization entry
CycleName == "self_optimization"
\* no object: what dict.get returns for a missing key
NoObj == 0
\* h_lastFire of an entry whose action the loop has not invoked yet
Never == 0 - 1

VARIABLES
    now,             \* datetime.now()
    theap,           \* the task dicts built by TaskScheduler.schedule_task
    tasks,           \* TaskScheduler.tasks: sequence of [k, o]
    pheap,           \* the entry dicts built by Scheduler.add_periodic_task
    periodic_tasks,  \* Scheduler.periodic_tasks: sequence of [k, o]
    loop,            \* locals of the thread in _run_scheduler
    lister,          \* locals of the caller in list_tasks
    taskLog,         \* records stored by DataStorage.store_task_log, per name
    api,             \* the latest public call and its result
    hist,            \* history of the loop: the executions of the current scan
    ops              \* number of public calls made so far

vars == <<now, theap, tasks, pheap, periodic_tasks, loop, lister, taskLog,
          api, hist, ops>>

\* ------------------------------------------------------------ dictionaries
Keys(d) == {d[i].k : i \in 1..Len(d)}

IndexOf(d, name) == CHOOSE i \in 1..Len(d) : d[i].k = name

\* dict.get(name): the object stored under name, None when there is none
Get(d, name) == IF name \in Keys(d) THEN d[IndexOf(d, name)].o ELSE NoObj

\* a store that adds an entry for every assignment
PutAppends(d, name, o) == Append(d, [k |-> name, o |-> o])

\* d[name] = o: an existing key keeps its place, a new key goes last
Put(d, name, o) ==
    IF name \in Keys(d)
    THEN [d EXCEPT ![IndexOf(d, name)] = [k |-> name, o |-> o]]
    ELSE Append(d, [k |-> name, o |-> o])

\* del d[name]
Del(d, name) ==
    LET i == IndexOf(d, name)
    IN  SubSeq(d, 1, i - 1) \o SubSeq(d, i + 1, Len(d))

\* iter(d.items())
Iter(d) == [pos |-> 0, used |-> Len(d)]

NoIter == [pos |-> 0, used |-> 0]

\* an iterator of d after del d[name]: a deleted entry behind the cursor
\* leaves the cursor on the same next entry
IterAfterDel(it, d, name) ==
    IF IndexOf(d, name) <= it.pos THEN [it EXCEPT !.pos = it.pos - 1] ELSE it

\* next() raises RuntimeError: dictionary changed size during iteration
IterRaises(it, d) == Len(d) # it.used

IterDone(it, d) == it.pos >= Len(d)

\* ------------------------------------------------------------- conditions
\* a scan that takes up again what an earlier scan marked
IsOverdueOrMarked(task, current_time) ==
    task.status \in {"scheduled", "overdue"} /\ task.run_time < current_time

\* task_scheduler.py:43
IsOverdue(task, current_time) ==
    task.status = "scheduled" /\ task.run_time < current_time

\* task_scheduler.py:43: the comparison of a run_time that is no datetime
\* with current_time raises TypeError; "and" skips it for an entry that is
\* not scheduled
CompareRaises(task) == task.status = "scheduled" /\ task.run_time = NotATime

\* scheduler.py:39: last_run + interval raises TypeError
AddRaises(task_info) == task_info.interval = NotAnInterval

\* task_scheduler.py:23: run_time.strftime raises AttributeError after the
\* entry has been stored
ScheduleResult(rt) == IF rt = NotATime THEN "AttributeError" ELSE "scheduled"

\* task_scheduler.py:30
CanRun(o) == o # NoObj /\ theap[o].status = "scheduled"

\* the test of line 39 without the interval
DueIgnoresInterval(t, last_run, interval) == t >= last_run

\* the test of line 39 with > for >=
DueStrict(t, last_run, interval) == t > last_run + interval

\* scheduler.py:39
Due(t, last_run, interval) == t >= last_run + interval

\* a DataStorage that has the method
store_task_log_present == TRUE

\* class DataStorage defines load_data, save_data, add_entry, get_entry,
\* delete_entry, list_entries and backup_data: no store_task_log
store_task_log_defined == FALSE

\* log_task_execution: the call at scheduler.py:95 stores the record, or
\* raises AttributeError when DataStorage has no such method
LogFault == IF store_task_log_defined THEN "none" ELSE "AttributeError"

\* an except clause that lets the fault of the action through
CaughtUnlessAction(fault) == fault # "action"

\* an except clause that names KeyError only
CaughtLookupOnly(fault) == fault = "KeyError"

\* scheduler.py:85: except Exception catches every fault of the try body
Caught(fault) == TRUE

\* the fault raised inside the try body of execute_task(name, periodic=True)
PeriodicFault(name) ==
    LET o == Get(periodic_tasks, name)
    IN  IF o = NoObj THEN "KeyError"
        ELSE IF pheap[o].task_func = "raises" THEN "action"
        ELSE LogFault

\* the log_error calls made by the action itself.  run_self_optimization_cycle
\* (scheduler.py:105-114) calls feedback_processor.get_all_feedback and then
\* data_storage.retrieve_data, which class DataStorage does not define: the
\* AttributeError (or an earlier fault of get_all_feedback) is caught by the
\* method's own except clause, logged as "Self-Optimization Error", and the
\* method returns; train_from_interactions and update_response_patterns
\* are not reached
ActionErrors(name) ==
    LET o == Get(periodic_tasks, name)
    IN  IF o # NoObj /\ pheap[o].task_func = "cycle" THEN 1 ELSE 0

\* what one execute_task call reports: one log_error per caught fault, one
\* stored record when the body ran to its end; ok: the periodic action
\* returned (for a one-shot task the callers set it: run_task returned the
\* success message)
ExecRecord(name, periodic, fault) ==
    [name |-> name, periodic |-> periodic, fault |-> fault,
     errs |-> IF fault # "none" THEN 1 ELSE 0,
     logs |-> IF fault = "none" THEN 1 ELSE 0,
     ok |-> fault \notin {"action", "KeyError"}]

\* a replaced or cancelled dict
TFreed == [run_time |-> 0, details |-> "d1", status |-> "freed",
           h_schedAt |-> 0, h_dispatched |-> FALSE]

PFreed == [task_func |-> "noop", interval |-> TickPeriod, last_run |-> 0,
           details |-> "d1", h_lastFire |-> Never, h_gap |-> Never,
           h_lag |-> 0, h_calm |-> FALSE, h_addedAt |-> 0]

Free(heap, o, freed) == IF o = NoObj THEN heap ELSE [heap EXCEPT ![o] = freed]

\* task[field] = v on a task dict a thread holds
SetStatus(o, v) ==
    IF theap[o] = TFreed THEN theap ELSE [theap EXCEPT ![o].status = v]

Logged(name, fault) ==
    IF fault = "none" THEN [taskLog EXCEPT ![name] = @ + 1] ELSE taskLog

\* ------------------------------------------------------------------- Init
NoReport == [name |-> "a", periodic |-> FALSE, fault |-> "none", errs |-> 0,
             logs |-> 0, ok |-> FALSE]

NoApi == [op |-> "none", name |-> "a", result |-> "none", exec |-> NoReport,
          h_before |-> "none"]

\* h_before: the result of the call before, when that was a cancel_task of
\* the same name and this call is one too; for schedule_task, the status of
\* the entry the call replaced
Api(op, name, result) ==
    [op |-> op, name |-> name, result |-> result, exec |-> NoReport,
     h_before |-> IF op = "cancel_task" /\ api.op = op /\ api.name = name
                  THEN api.result ELSE "none"]

LoopStart == [pc |-> "check", current_time |-> 0, it |-> NoIter,
              overdue_tasks |-> << >>, name |-> "a", obj |-> NoObj,
              last_run |-> 0, interval |-> 0, sleepStart |-> 0,
              fault |-> "none", h_invoked |-> NoObj, h_errors |-> 0]

ListerIdle == [pc |-> "idle", it |-> NoIter, scheduled |-> << >>,
               periodic |-> << >>]

\* scan: the executions of the current scan; pending: the tasks found due
\* and not yet executed; marked: the names check_overdue_tasks found due, in
\* the order the iteration produced them; handed: the task dicts this scan
\* has handed to run_task
NoHist == [scan |-> << >>, pending |-> {}, marked |-> << >>, handed |-> {}]

Init ==
    /\ now = 0
    /\ theap = << >>
    /\ tasks = << >>
    /\ pheap = << >>
    /\ periodic_tasks = << >>
    /\ loop = LoopStart
    /\ lister = ListerIdle
    /\ taskLog = [n \in Names |-> 0]
    /\ api = NoApi
    /\ hist = NoHist
    /\ ops = 0

\* the clock
Advance ==
    /\ now < MaxTime
    /\ now' = now + 1
    /\ UNCHANGED <<theap, tasks, pheap, periodic_tasks, loop, lister,
                   taskLog, api, hist, ops>>

\* ----------------------------------------------------------- public calls
LoopOnTasks == loop.pc \in {"tnext", "tmark"}
LoopOnPeriodic == loop.pc \in {"pnext", "pexec", "pset"}

\* TaskScheduler.schedule_task, through Scheduler.schedule_task
schedule_task(n, rt, d) ==
    /\ theap' = Append(Free(theap, Get(tasks, n), TFreed),
                        [run_time |-> rt, details |-> d,
                         status |-> "scheduled", h_schedAt |-> now,
                         h_dispatched |-> FALSE])
    /\ tasks' = Put(tasks, n, Len(theap) + 1)
    /\ api' = [Api("schedule_task", n, ScheduleResult(rt)) EXCEPT
                   !.h_before = IF n \in Keys(tasks)
                                THEN theap[Get(tasks, n)].status ELSE "none"]
    /\ ops' = ops + 1
    /\ UNCHANGED <<now, pheap, periodic_tasks, loop, lister, taskLog, hist>>

\* Scheduler.add_periodic_task
add_periodic_task(n, i, f) ==
    /\ pheap' = Append(Free(pheap, Get(periodic_tasks, n), PFreed),
                        [task_func |-> f, interval |-> i,
                         last_run |-> now, details |-> "d1",
                         h_lastFire |-> Never, h_gap |-> Never, h_lag |-> 0,
                         h_calm |-> TRUE, h_addedAt |-> now])
    /\ periodic_tasks' = Put(periodic_tasks, n, Len(pheap) + 1)
    /\ api' = Api("add_periodic_task", n, "none")
    /\ ops' = ops + 1
    /\ UNCHANGED <<now, theap, tasks, loop, lister, taskLog, hist>>

\* Scheduler.start_self_optimization_cycle
start_self_optimization_cycle(i) ==
    add_periodic_task(CycleName, i, "cycle")

\* a cancel_task that acknowledges whatever it is given
TaskCancelResultAck(n) == "canceled"

\* a cancel_task that empties the store when the name is missing
TaskCancelClears(n) == IF n \in Keys(tasks) THEN Del(tasks, n) ELSE << >>

\* TaskScheduler.cancel_task: the new task dict and the message
TaskCancelResult(n) == IF n \in Keys(tasks) THEN "canceled" ELSE "not found"

TaskCancel(n) == IF n \in Keys(tasks) THEN Del(tasks, n) ELSE tasks

\* a test that sends a name held by both registries to the task store
IsPeriodicOnly(n) == n \in Keys(periodic_tasks) /\ n \notin Keys(tasks)

\* scheduler.py:118
IsPeriodic(n) == n \in Keys(periodic_tasks)

\* Scheduler.cancel_task: the periodic registry first, then the task store;
\* the message is printed
cancel_task(n) ==
    /\ IF IsPeriodic(n)
       THEN /\ periodic_tasks' = Del(periodic_tasks, n)
            /\ loop' = IF LoopOnPeriodic
                       THEN [loop EXCEPT !.it = IterAfterDel(@, periodic_tasks, n)]
                       ELSE loop
            /\ lister' = IF lister.pc = "periodic"
                         THEN [lister EXCEPT !.it = IterAfterDel(@, periodic_tasks, n)]
                         ELSE lister
            /\ pheap' = Free(pheap, Get(periodic_tasks, n), PFreed)
            /\ api' = Api("cancel_task", n, "periodic canceled")
            /\ UNCHANGED <<tasks, theap>>
       ELSE /\ tasks' = TaskCancel(n)
            /\ loop' = IF LoopOnTasks /\ n \in Keys(tasks)
                       THEN [loop EXCEPT !.it = IterAfterDel(@, tasks, n)]
                       ELSE loop
            /\ lister' = IF lister.pc = "tasks" /\ n \in Keys(tasks)
                         THEN [lister EXCEPT !.it = IterAfterDel(@, tasks, n)]
                         ELSE lister
            /\ theap' = Free(theap, Get(tasks, n), TFreed)
            /\ api' = Api("cancel_task", n, TaskCancelResult(n))
            /\ UNCHANGED <<periodic_tasks, pheap>>
    /\ ops' = ops + 1
    /\ UNCHANGED <<now, taskLog, hist>>

\* Scheduler.execute_task called by a caller: the manual trigger
execute_task(n, periodic) ==
    /\ IF periodic
       THEN LET fault == PeriodicFault(n)
            IN  /\ Caught(fault)
                /\ api' = [Api("execute_task", n, "none") EXCEPT
                               !.exec = [ExecRecord(n, TRUE, fault) EXCEPT
                                            !.errs = @ + ActionErrors(n)]]
                /\ taskLog' = Logged(n, fault)
                /\ UNCHANGED theap
       ELSE LET o == Get(tasks, n)
            IN  /\ Caught(LogFault)
                /\ theap' = IF CanRun(o) THEN SetStatus(o, "completed")
                            ELSE theap
                /\ api' = [Api("execute_task", n, "none") EXCEPT
                               !.exec = [ExecRecord(n, FALSE, LogFault)
                                             EXCEPT !.ok = CanRun(o)]]
                /\ taskLog' = Logged(n, LogFault)
    /\ ops' = ops + 1
    /\ UNCHANGED <<now, tasks, pheap, periodic_tasks, loop, lister, hist>>

\* TaskScheduler.run_task called by a caller (CoreLogic.handle_task_management,
\* action "run"): the manual trigger that does not pass through execute_task
run_task(n) ==
    /\ LET o == Get(tasks, n)
       IN  /\ theap' = IF CanRun(o) THEN SetStatus(o, "completed") ELSE theap
           /\ api' = Api("run_task", n, IF CanRun(o) THEN "executed"
                                        ELSE "not found or completed")
    /\ ops' = ops + 1
    /\ UNCHANGED <<now, tasks, pheap, periodic_tasks, loop, lister, taskLog,
                   hist>>

\* a request to shut the scheduler down.  Scheduler has no stop method, no
\* flag and no event, and _run_scheduler is "while True" around a plain
\* time.sleep: whatever the caller does to ask for a shutdown reaches no
\* code of the loop and changes nothing the loop reads.
request_shutdown ==
    /\ api' = Api("shutdown", "a", "none")
    /\ ops' = ops + 1
    /\ UNCHANGED <<now, theap, tasks, pheap, periodic_tasks, loop, lister,
                   taskLog, hist>>

\* ------------------------------------------------- Scheduler._run_scheduler
\* a loop without the guard: the fault ends the thread
LoopFaultEnds(cause, ph) ==
    /\ loop' = [LoopStart EXCEPT !.fault = cause, !.pc = "ended"]
    /\ UNCHANGED <<hist, pheap>>

\* h_errors: the log_error calls of the guard since the last scan began
\* scheduler.py:44-45: a fault that reaches the guard of the loop body is
\* logged as "Scheduler Error" and the while loop starts its body again,
\* without the sleep of line 43.  ph is pheap as the faulting step leaves it.
LoopFault(cause, ph) ==
    /\ loop' = [LoopStart EXCEPT !.fault = cause, !.h_errors = 1]
    /\ UNCHANGED hist
    /\ pheap' = [o \in 1..Len(ph) |->
                    IF \E i \in 1..Len(periodic_tasks) : periodic_tasks[i].o = o
                    THEN [ph[o] EXCEPT !.h_calm = FALSE] ELSE ph[o]]

\* scheduler.py:31 -> task_scheduler.py:40-42: current_time, the empty list
\* and the iterator of self.tasks.items()
check_overdue_tasks ==
    /\ loop.pc = "check"
    /\ loop' = [loop EXCEPT !.pc = "tnext", !.current_time = now,
                            !.it = Iter(tasks), !.overdue_tasks = << >>,
                            !.fault = "none", !.h_errors = 0]
    /\ hist' = NoHist
    /\ UNCHANGED <<now, theap, tasks, pheap, periodic_tasks, lister, taskLog,
                   api, ops>>

\* task_scheduler.py:42-43: the next (name, task) and the test on it
overdue_next ==
    /\ loop.pc = "tnext"
    /\ IF IterRaises(loop.it, tasks)
       THEN LoopFault("RuntimeError", pheap)
       ELSE IF /\ ~IterDone(loop.it, tasks)
               /\ CompareRaises(theap[tasks[loop.it.pos + 1].o])
       THEN LoopFault("TypeError", pheap)
       ELSE /\ IF IterDone(loop.it, tasks)
               THEN loop' = [loop EXCEPT !.pc = "dispatch", !.it = NoIter]
               ELSE LET e == tasks[loop.it.pos + 1]
                    IN  IF IsOverdue(theap[e.o], loop.current_time)
                        THEN loop' = [loop EXCEPT !.it.pos = @ + 1, !.name = e.k,
                                                  !.obj = e.o, !.pc = "tmark"]
                        ELSE loop' = [loop EXCEPT !.it.pos = @ + 1]
            /\ UNCHANGED <<pheap, hist>>
    /\ UNCHANGED <<now, theap, tasks, periodic_tasks, lister, taskLog,
                   api, ops>>

\* the same with the name put at the front of the list
overdue_mark_prepends ==
    /\ loop.pc = "tmark"
    /\ theap' = SetStatus(loop.obj, "overdue")
    /\ loop' = [loop EXCEPT !.overdue_tasks = <<loop.name>> \o @,
                            !.obj = NoObj, !.pc = "tnext"]
    /\ hist' = [hist EXCEPT !.pending = @ \cup {<<"task", loop.name>>},
                            !.marked = Append(@, loop.name)]
    /\ UNCHANGED <<now, tasks, pheap, periodic_tasks, lister, taskLog,
                   api, ops>>

\* task_scheduler.py:44-45: append the name, mark the task the iterator
\* handed out
overdue_mark ==
    /\ loop.pc = "tmark"
    /\ theap' = SetStatus(loop.obj, "overdue")
    /\ loop' = [loop EXCEPT !.overdue_tasks = Append(@, loop.name),
                            !.obj = NoObj, !.pc = "tnext"]
    /\ hist' = [hist EXCEPT !.pending = @ \cup {<<"task", loop.name>>},
                            !.marked = Append(@, loop.name)]
    /\ UNCHANGED <<now, tasks, pheap, periodic_tasks, lister, taskLog,
                   api, ops>>

\* scheduler.py:80-86 for a one-shot task, after run_task has returned:
\* print, log_task_execution, the except clause
FinishTask(name, th, handed) ==
    IF Caught(LogFault)
    THEN /\ theap' = th
         /\ taskLog' = Logged(name, LogFault)
         /\ loop' = [loop EXCEPT !.pc = "dispatch", !.name = name,
                                 !.obj = NoObj,
                                 !.overdue_tasks =
                                     IF loop.pc = "dispatch" THEN Tail(@) ELSE @]
         /\ hist' = [hist EXCEPT
                        !.scan = Append(@, [ExecRecord(name, FALSE, LogFault)
                                               EXCEPT !.ok = loop.pc = "trun"]),
                        !.pending = @ \ {<<"task", name>>},
                        !.handed = handed]
         /\ UNCHANGED pheap
    ELSE /\ theap' = th
         /\ LoopFault("execute_task", pheap)
         /\ UNCHANGED taskLog

\* scheduler.py:32-33 -> 79 -> task_scheduler.py:29-30: the next overdue
\* name, self.tasks.get(name) and the test of its status; after the last
\* name, the iterator of self.periodic_tasks.items() (scheduler.py:36)
dispatch ==
    /\ loop.pc = "dispatch"
    /\ IF loop.overdue_tasks = << >>
       THEN /\ loop' = [loop EXCEPT !.pc = "pnext", !.it = Iter(periodic_tasks)]
            /\ UNCHANGED <<theap, pheap, taskLog, hist>>
       ELSE LET name == Head(loop.overdue_tasks)
                o == Get(tasks, name)
                th == IF o = NoObj THEN theap
                      ELSE [theap EXCEPT ![o].h_dispatched = TRUE]
                handed == IF o = NoObj THEN hist.handed
                          ELSE hist.handed \cup {o}
            IN  IF CanRun(o)
                THEN /\ theap' = th
                     /\ loop' = [loop EXCEPT !.pc = "trun", !.name = name,
                                             !.obj = o,
                                             !.overdue_tasks = Tail(@)]
                     /\ hist' = [hist EXCEPT !.handed = handed]
                     /\ UNCHANGED <<pheap, taskLog>>
                ELSE FinishTask(name, th, handed)
    /\ UNCHANGED <<now, tasks, periodic_tasks, lister, api, ops>>

\* task_scheduler.py:32-33, then scheduler.py:80-86
run_task_complete ==
    /\ loop.pc = "trun"
    /\ FinishTask(loop.name, SetStatus(loop.obj, "completed"), hist.handed)
    /\ UNCHANGED <<now, tasks, periodic_tasks, lister, api, ops>>

\* scheduler.py:36-39: the next (task_name, task_info), its last_run and
\* interval, and the test against datetime.now(); after the last entry,
\* time.sleep(60) begins
periodic_next ==
    /\ loop.pc = "pnext"
    /\ IF IterRaises(loop.it, periodic_tasks)
       THEN LoopFault("RuntimeError", pheap)
       ELSE IF /\ ~IterDone(loop.it, periodic_tasks)
               /\ AddRaises(pheap[periodic_tasks[loop.it.pos + 1].o])
       THEN LoopFault("TypeError", pheap)
       ELSE /\ IF IterDone(loop.it, periodic_tasks)
               THEN /\ loop' = [loop EXCEPT !.pc = "sleep", !.it = NoIter,
                                            !.sleepStart = now]
                    /\ UNCHANGED hist
               ELSE LET e == periodic_tasks[loop.it.pos + 1]
                        task_info == pheap[e.o]
                    IN  IF Due(now, task_info.last_run, task_info.interval)
                        THEN /\ loop' = [loop EXCEPT
                                            !.it.pos = @ + 1, !.name = e.k,
                                            !.obj = e.o,
                                            !.last_run = task_info.last_run,
                                            !.interval = task_info.interval,
                                            !.pc = "pexec"]
                             /\ hist' = [hist EXCEPT
                                            !.pending = @ \cup {<<"periodic", e.k>>}]
                        ELSE /\ loop' = [loop EXCEPT !.it.pos = @ + 1]
                             /\ UNCHANGED hist
            /\ UNCHANGED pheap
    /\ UNCHANGED <<now, theap, tasks, periodic_tasks, lister, taskLog,
                   api, ops>>

\* scheduler.py:40 -> 74-86: execute_task(task_name, periodic=True) looks the
\* name up again, calls its task_func and logs
periodic_execute ==
    /\ loop.pc = "pexec"
    /\ LET name == loop.name
           o == Get(periodic_tasks, name)
           fault == PeriodicFault(name)
           ph == IF o = NoObj THEN pheap
                 ELSE [pheap EXCEPT
                          ![o].h_lag = @ - 1, ![o].h_lastFire = now,
                          ![o].h_gap = IF pheap[o].h_lastFire = Never THEN Never
                                       ELSE now - pheap[o].h_lastFire]
       IN  IF Caught(fault)
           THEN /\ pheap' = ph
                /\ taskLog' = Logged(name, fault)
                /\ loop' = [loop EXCEPT !.pc = "pset", !.h_invoked = o]
                /\ hist' = [hist EXCEPT
                               !.scan = Append(@, [ExecRecord(name, TRUE, fault)
                                                      EXCEPT !.errs = @ + ActionErrors(name)]),
                               !.pending = @ \ {<<"periodic", name>>}]
           ELSE /\ LoopFault("execute_task", ph)
                /\ UNCHANGED taskLog
    /\ UNCHANGED <<now, theap, tasks, periodic_tasks, lister, api, ops>>

\* scheduler.py:41: self.periodic_tasks[task_name]["last_run"] = now
periodic_set_last_run ==
    /\ loop.pc = "pset"
    /\ LET o == Get(periodic_tasks, loop.name)
       IN  IF o = NoObj
           THEN LoopFault("KeyError", pheap)
           ELSE /\ pheap' = [pheap EXCEPT ![o].last_run = now]
                /\ loop' = [loop EXCEPT !.pc = "pnext", !.obj = NoObj,
                                        !.last_run = 0, !.interval = 0,
                                        !.h_invoked = NoObj]
                /\ UNCHANGED hist
    /\ UNCHANGED <<now, theap, tasks, periodic_tasks, lister, taskLog,
                   api, ops>>

\* scheduler.py:43: time.sleep(60) returns after at least one tick period
wake ==
    /\ loop.pc = "sleep"
    /\ now >= loop.sleepStart + TickPeriod
    /\ loop' = [loop EXCEPT !.pc = "check", !.sleepStart = 0]
    /\ pheap' = [o \in 1..Len(pheap) |->
                    IF \E i \in 1..Len(periodic_tasks) : periodic_tasks[i].o = o
                    THEN [pheap[o] EXCEPT !.h_lag = @ + 1] ELSE pheap[o]]
    /\ UNCHANGED <<now, theap, tasks, periodic_tasks, lister, taskLog,
                   api, hist, ops>>

\* ----------------------------------------------------- Scheduler.list_tasks
\* scheduler.py:126 -> task_scheduler.py:61-68: the comprehension starts
list_tasks ==
    /\ lister.pc = "idle"
    /\ lister' = [ListerIdle EXCEPT !.pc = "tasks", !.it = Iter(tasks)]
    /\ api' = Api("list_tasks", "a", "none")
    /\ ops' = ops + 1
    /\ UNCHANGED <<now, theap, tasks, pheap, periodic_tasks, loop, taskLog,
                   hist>>

\* task_scheduler.py:62-68: one item of the comprehension; at its end the
\* comprehension of scheduler.py:127-134 starts
list_scheduled_next ==
    /\ lister.pc = "tasks"
    /\ IF IterRaises(lister.it, tasks)
       THEN lister' = [lister EXCEPT !.pc = "raised", !.it = NoIter]
       ELSE IF /\ ~IterDone(lister.it, tasks)
               /\ theap[tasks[lister.it.pos + 1].o].run_time = NotATime
       THEN lister' = [lister EXCEPT !.pc = "raised", !.it = NoIter]
       ELSE IF IterDone(lister.it, tasks)
       THEN lister' = [lister EXCEPT !.pc = "periodic",
                                     !.it = Iter(periodic_tasks)]
       ELSE LET e == tasks[lister.it.pos + 1]
                task == theap[e.o]
            IN  lister' = [lister EXCEPT
                              !.it.pos = @ + 1,
                              !.scheduled =
                                  Append(@, [task_name |-> e.k,
                                             run_time |-> task.run_time,
                                             status |-> task.status,
                                             details |-> task.details])]
    /\ UNCHANGED <<now, theap, tasks, pheap, periodic_tasks, loop, taskLog,
                   api, hist, ops>>

\* scheduler.py:127-135: one item of the comprehension; at its end the
\* call returns
list_periodic_next ==
    /\ lister.pc = "periodic"
    /\ IF IterRaises(lister.it, periodic_tasks)
       THEN lister' = [lister EXCEPT !.pc = "raised", !.it = NoIter]
       ELSE IF /\ ~IterDone(lister.it, periodic_tasks)
               /\ AddRaises(pheap[periodic_tasks[lister.it.pos + 1].o])
       THEN lister' = [lister EXCEPT !.pc = "raised", !.it = NoIter]
       ELSE IF IterDone(lister.it, periodic_tasks)
       THEN lister' = [lister EXCEPT !.pc = "returned", !.it = NoIter]
       ELSE LET e == periodic_tasks[lister.it.pos + 1]
                task == pheap[e.o]
            IN  lister' = [lister EXCEPT
                              !.it.pos = @ + 1,
                              !.periodic =
                                  Append(@, [task_name |-> e.k,
                                             interval |-> task.interval,
                                             last_run |-> task.last_run])]
    /\ UNCHANGED <<now, theap, tasks, pheap, periodic_tasks, loop, taskLog,
                   api, hist, ops>>

\* the caller has its result, or its RuntimeError
list_end ==
    /\ lister.pc \in {"returned", "raised"}
    /\ lister' = ListerIdle
    /\ UNCHANGED <<now, theap, tasks, pheap, periodic_tasks, loop, taskLog,
                   api, hist, ops>>

\* ------------------------------------------------------------------- Next
RunTimes == {now - 1, now, now + 1}

PublicCall ==
    \/ \E n \in Names, rt \in RunTimes, d \in Details : schedule_task(n, rt, d)
    \/ \E n \in Names, i \in Intervals, f \in Actions : add_periodic_task(n, i, f)
    \/ \E n \in Names : cancel_task(n)
    \/ \E n \in Names, p \in BOOLEAN : execute_task(n, p)

LoopStep ==
    \/ check_overdue_tasks
    \/ overdue_next
    \/ overdue_mark
    \/ dispatch
    \/ run_task_complete
    \/ periodic_next
    \/ periodic_execute
    \/ periodic_set_last_run
    \/ wake

ListStep ==
    \/ ops < MaxOps /\ list_tasks
    \/ list_scheduled_next
    \/ list_periodic_next
    \/ list_end

\* the loop, the clock and the callers
Next ==
    \/ Advance
    \/ ops < MaxOps /\ PublicCall
    \/ LoopStep

Spec == Init /\ [][Next]_vars

\* the same with one caller inside list_tasks
NextList ==
    \/ Next
    \/ ListStep

SpecList == Init /\ [][NextList]_vars

\* the loop, the clock and the callers, one of which asks for a shutdown
NextStop ==
    \/ Next
    \/ ops < MaxOps /\ request_shutdown

SpecStop == Init /\ [][NextStop]_vars

\* the callers also pass a run_time that is no datetime and an interval
\* that is no timedelta, call TaskScheduler.run_task themselves and start
\* the self-optimization cycle
WideCall ==
    \/ PublicCall
    \/ \E n \in Names, d \in Details : schedule_task(n, NotATime, d)
    \/ \E n \in Names, f \in Actions : add_periodic_task(n, NotAnInterval, f)
    \/ \E n \in Names : run_task(n)
    \/ \E i \in Intervals : start_self_optimization_cycle(i)

NextWide ==
    \/ Advance
    \/ ops < MaxOps /\ WideCall
    \/ LoopStep

SpecWide == Init /\ [][NextWide]_vars

\* the loop, the clock and callers that use one name, one past run_time
\* and one periodic action: room for one more call beside the loop
NarrowCall ==
    \/ schedule_task("a", now - 1, "d1")
    \/ add_periodic_task("a", TickPeriod, "noop")
    \/ cancel_task("a")
    \/ \E p \in BOOLEAN : execute_task("a", p)

NextNarrow ==
    \/ Advance
    \/ ops < MaxNarrowOps /\ NarrowCall
    \/ LoopStep

SpecNarrow == Init /\ [][NextNarrow]_vars

\* calls made one after the other while the loop thread has not run yet or
\* is asleep
NextCalls == ops < MaxCalls /\ PublicCall

SpecCalls == Init /\ [][NextCalls]_vars

\* ================================================================= claims
\* the task dicts and the periodic entries the registries hold
Tasks == {<<tasks[i].k, tasks[i].o>> : i \in 1..Len(tasks)}

Periodics == {<<periodic_tasks[i].k, periodic_tasks[i].o>> :
                  i \in 1..Len(periodic_tasks)}

\* the tick has ended: the loop is in time.sleep
TickEnded == loop.pc = "sleep"

\* C1: a one-shot task whose run_time was already in the past when it was
\* scheduled, and which a tick has handed to the executor, is Completed or
\* Failed when that tick ends: it does not remain Overdue.
C1_PastTaskLeavesOverdue ==
    \A e \in Tasks :
        LET task == theap[e[2]]
        IN  TickEnded /\ task.run_time < task.h_schedAt /\ task.h_dispatched
                => task.status \in {"completed", "failed"}

\* C2: a one-shot task scheduled with a future run_time, once the tick
\* after that time has handed it to the executor, is listed with status
\* Completed and the execution-log sink holds exactly one record for it.
C2_FutureTaskCompletedAndLogged ==
    \A e \in Tasks :
        LET task == theap[e[2]]
        IN  (/\ TickEnded
             /\ task.run_time > task.h_schedAt
             /\ loop.current_time > task.run_time
             /\ task.h_dispatched)
                => task.status = "completed" /\ taskLog[e[1]] = 1

\* the executions so far in this scan, and the latest one made by a caller
Executions ==
    {hist.scan[i] : i \in 1..Len(hist.scan)}
        \cup (IF api.op = "execute_task" THEN {api.exec} ELSE {})

\* C5: an execution whose action raises calls log_error exactly once, an
\* execution whose action does not raise calls it not at all (an execution
\* that finds no periodic entry under the name has no action).
C5_OneErrorPerActionFault ==
    \A x \in Executions :
        x.fault # "KeyError" => x.errs = IF x.fault = "action" THEN 1 ELSE 0

C4_FaultStaysInExecutor ==
    /\ loop.fault # "execute_task"
    /\ TickEnded => hist.pending = {}

\* a tick has ended in which an action raised and another task was
\* executed after it
C4_Witness ==
    /\ TickEnded
    /\ \E i, j \in 1..Len(hist.scan) :
           i < j /\ hist.scan[i].fault = "action"

Acks == {"canceled", "periodic canceled"}

\* this step is a cancel_task call
CancelStep == api'.op = "cancel_task" /\ ops' = ops + 1

\* this step is a cancel_task call and so was the call before, for the
\* same name, and that call found an entry
CancelAgain ==
    /\ CancelStep
    /\ api.op = "cancel_task"
    /\ api.name = api'.name
    /\ api.result \in Acks

\* a cancel_task of a registered name removes one entry of that name and
\* acknowledges
CancelFirst ==
    CancelStep /\ api'.name \in Keys(tasks) \cup Keys(periodic_tasks)
        => /\ api'.result \in Acks
           /\ Len(tasks') + Len(periodic_tasks')
                  = Len(tasks) + Len(periodic_tasks) - 1
           /\ Keys(tasks') \cup Keys(periodic_tasks')
                  \subseteq Keys(tasks) \cup Keys(periodic_tasks)
           /\ api'.name \notin Keys(tasks') \cap Keys(periodic_tasks')

\* C6 as claimed: of two cancel_task calls in a row for the same registered
\* name, the first removes the entry and acknowledges, the second returns
\* not-found and changes nothing.
C6_CancelTwice ==
    [][/\ CancelFirst
       /\ CancelAgain => /\ api'.result = "not found"
                         /\ UNCHANGED <<tasks, periodic_tasks>>]_vars

\* C6 as amended: the second call returns not-found and changes nothing
\* unless the first call removed a periodic entry and a one-shot task of
\* the same name exists; then the second call removes that task and
\* acknowledges.
C6_CancelTwiceOneRegistry ==
    [][/\ CancelFirst
       /\ CancelAgain =>
              IF api.result = "periodic canceled" /\ api'.name \in Keys(tasks)
              THEN /\ api'.result = "canceled"
                   /\ tasks' = Del(tasks, api'.name)
                   /\ UNCHANGED periodic_tasks
              ELSE /\ api'.result = "not found"
                   /\ UNCHANGED <<tasks, periodic_tasks>>]_vars

\* the second of two cancel_task calls in a row has returned not-found
C6_Witness ==
    /\ api.op = "cancel_task"
    /\ api.h_before \in Acks
    /\ api.result = "not found"

NoDuplicates(out) ==
    \A i, j \in 1..Len(out) : out[i].task_name = out[j].task_name => i = j

\* C8: list_tasks running beside schedule_task, cancel_task,
\* add_periodic_task and the loop returns normally, with at most one entry
\* per name.
C8_ListReturnsOneEntryPerName ==
    /\ lister.pc # "raised"
    /\ lister.pc = "returned"
           => NoDuplicates(lister.scheduled) /\ NoDuplicates(lister.periodic)

\* a periodic entry with a no-op action and an interval of one tick period,
\* registered while no scan of the loop was aborted
Heartbeat(p) == p.interval = TickPeriod /\ p.task_func = "noop" /\ p.h_calm

\* C9: a heartbeat entry is invoked once per tick: the number of wake-ups
\* of the loop since it was registered and the number of invocations differ
\* by at most one, and each invocation leaves last_run strictly greater.
C9_HeartbeatOncePerTick ==
    /\ [](\A e \in Periodics :
              LET p == pheap[e[2]]
              IN  Heartbeat(p) => /\ p.h_lag >= 0 - 1
                                  /\ TickEnded => p.h_lag <= 1)
    /\ [][loop.pc = "pset" /\ loop'.pc = "pnext"
              /\ Get(periodic_tasks, loop.name) = loop.obj
              /\ Heartbeat(pheap[loop.obj])
              => pheap'[loop.obj].last_run > pheap[loop.obj].last_run]_vars

\* a heartbeat has been invoked in two ticks
C9_Witness ==
    /\ TickEnded
    /\ \E e \in Periodics :
           Heartbeat(pheap[e[2]]) /\ pheap[e[2]].h_gap # Never

\* C10: invoking a periodic action and updating last_run are one step for
\* every other actor, whatever add_periodic_task, cancel_task and
\* execute_task calls run beside the loop: the last_run of an entry changes
\* only forward, and only by the tick that found this very entry due and
\* invoked its action.
C10_TriggerIsAtomic ==
    [][\A o \in 1..Len(pheap) :
           pheap'[o] # PFreed /\ pheap'[o].last_run # pheap[o].last_run
               => /\ pheap'[o].last_run > pheap[o].last_run
                  /\ loop.pc = "pset"
                  /\ loop.obj = o
                  /\ loop.h_invoked = o]_vars

\* C11: after schedule_task(name, run_time, details) the task store holds
\* exactly one entry for name, with that run_time, those details and status
\* scheduled, whatever was stored under the name before, and the entries
\* under the other names are the same objects with the same contents.
C11_ScheduleOverwrites ==
    [][\A n \in Names, rt \in RunTimes, d \in Details :
           schedule_task(n, rt, d)
               => /\ Cardinality({i \in 1..Len(tasks') : tasks'[i].k = n}) = 1
                  /\ Keys(tasks') = Keys(tasks) \cup {n}
                  /\ theap'[Get(tasks', n)]
                         = [run_time |-> rt, details |-> d,
                            status |-> "scheduled", h_schedAt |-> now,
                            h_dispatched |-> FALSE]
                  /\ \A m \in Keys(tasks) \ {n} :
                         /\ Get(tasks', m) = Get(tasks, m)
                         /\ theap'[Get(tasks, m)] = theap[Get(tasks, m)]]_vars

\* schedule_task has replaced an entry a tick had marked overdue
C11_Witness ==
    /\ api.op = "schedule_task"
    /\ api.h_before = "overdue"
    /\ theap[Get(tasks, api.name)].status = "scheduled"

OneShots == SelectSeq(hist.scan, LAMBDA x : ~x.periodic)

\* C13: within one tick every one-shot task the scan found due has been
\* handed to the executor before the first periodic action is invoked, and
\* the one-shot tasks are executed in the order in which the iteration of
\* the store produced them.
C13_OneShotsFirstInStoreOrder ==
    /\ loop.pc \in {"pnext", "pexec", "pset", "sleep"}
           => /\ Len(OneShots) = Len(hist.marked)
              /\ \A n \in Names : <<"task", n>> \notin hist.pending
    /\ \A i, j \in 1..Len(hist.scan) :
           i < j /\ hist.scan[i].periodic => hist.scan[j].periodic
    /\ Len(OneShots) <= Len(hist.marked)
    /\ \A i \in 1..Len(OneShots) : OneShots[i].name = hist.marked[i]

\* a tick has ended that executed a one-shot task and then invoked a
\* periodic action
C13_Witness ==
    /\ TickEnded
    /\ \E i, j \in 1..Len(hist.scan) :
           i < j /\ ~hist.scan[i].periodic /\ hist.scan[j].periodic

\* the faults of the scanning logic: a registry changed size under the
\* iteration, or the entry of line 41 is gone
ScanFaults == {"RuntimeError", "KeyError"}

\* C14: a fault raised by the scanning logic of a tick is caught by the
\* guard of the loop body and reported once, and the loop goes on: it is at
\* the top of its body, able to start the next scan, and its next step is
\* that scan.
C14_ScanFaultIsGuarded ==
    /\ [](loop.fault \in ScanFaults
              => /\ loop.pc = "check"
                 /\ loop.h_errors = 1
                 /\ ENABLED check_overdue_tasks)
    /\ [][loop.fault \in ScanFaults /\ loop'.pc # loop.pc
              => loop'.pc = "tnext" /\ loop'.fault = "none"]_vars

\* the iteration of a registry has raised RuntimeError in the loop
C14_Witness ==
    /\ loop.fault = "RuntimeError"
    /\ loop.h_errors = 1
    /\ ops > 0

\* C15: the loop hands one scheduling of a one-shot task to the executor
\* in at most one tick, and a task that is no longer scheduled (marked,
\* executed or not) never becomes scheduled again, so that no later scan
\* picks it up.
C15_AtMostOnceNoRetry ==
    [][/\ \A o \in hist'.handed \ hist.handed : ~theap[o].h_dispatched
       /\ \A o \in 1..Len(theap) :
              theap[o].status # "scheduled" => theap'[o].status # "scheduled"
       /\ loop.pc = "tmark" /\ loop'.pc = "tnext" /\ theap[loop.obj] # TFreed
              => ~theap[loop.obj].h_dispatched]_vars

\* a tick has ended without taking up a task that an earlier tick handed
\* to the executor and that did not complete
C15_Witness ==
    /\ TickEnded
    /\ \E e \in Tasks :
           /\ theap[e[2]].h_dispatched
           /\ theap[e[2]].status = "overdue"
           /\ e[2] \notin hist.handed

\* a periodic entry whose action raises at every invocation, with an
\* interval of one tick period, registered while no scan was aborted
Faulty(p) == p.interval = TickPeriod /\ p.task_func = "raises" /\ p.h_calm

\* the loop's step out of execute_task when the action has raised
FaultyExecuteStep ==
    loop.pc = "pexec" /\ loop'.pc # "pexec"
        /\ PeriodicFault(loop.name) = "action"

\* the loop's step of line 41 on an entry whose action raises
FaultySetStep ==
    loop.pc = "pset" /\ loop'.pc = "pnext"
        /\ pheap[Get(periodic_tasks, loop.name)].task_func = "raises"

\* C16: a periodic action that raises leaves its entry registered, the
\* loop goes on with the same iteration as after an action that returns
\* (no registry, no one-shot task is touched) and sets last_run to the
\* current time, and the entry keeps being invoked once per tick period:
\* wake-ups and invocations differ by at most one.
C16_FaultyPeriodicKeepsFiring ==
    /\ [](\A e \in Periodics :
              LET p == pheap[e[2]]
              IN  Faulty(p) => /\ p.h_lag >= 0 - 1
                               /\ TickEnded => p.h_lag <= 1)
    /\ [][FaultyExecuteStep
              => /\ loop' = [loop EXCEPT
                                !.pc = "pset",
                                !.h_invoked = Get(periodic_tasks, loop.name)]
                 /\ hist'.pending = hist.pending \ {<<"periodic", loop.name>>}
                 /\ UNCHANGED <<tasks, theap, periodic_tasks, taskLog>>]_vars
    /\ [][FaultySetStep
              => /\ pheap'[Get(periodic_tasks, loop.name)].last_run = now
                 /\ UNCHANGED <<tasks, theap, periodic_tasks>>
                 /\ loop'.it = loop.it]_vars

\* an action that raises has been invoked in two ticks
C16_Witness ==
    /\ TickEnded
    /\ \E e \in Periodics :
           Faulty(pheap[e[2]]) /\ pheap[e[2]].h_gap # Never

\* C17: every execution of a task by the executor, whether its action
\* returned or raised, stores exactly one record in the execution log.
C17_OneLogRecordPerExecution ==
    \A x \in Executions : x.fault # "KeyError" => x.logs = 1

\* C18: a one-shot entry with status completed keeps that status under
\* every interleaving of the loop with run_task, until schedule_task or
\* cancel_task replaces or removes the entry.
C18_CompletedIsTerminal ==
    [][\A o \in 1..Len(theap) :
           theap[o].status = "completed"
               => theap'[o].status = "completed" \/ theap'[o] = TFreed]_vars

\* C19: cancel_task acknowledges the cancellation of a one-shot task only
\* when the task is scheduled or overdue, not when it has completed.
C19_CancelOnlyBeforeRunning ==
    [][CancelStep /\ api'.result = "canceled"
           => theap[Get(tasks, api'.name)].status
                  \in {"scheduled", "overdue"}]_vars

\* C20: once a shutdown has been requested and the current tick has ended,
\* the loop stays where it is: it starts no further tick.
C20_NoTickAfterShutdown ==
    [][api.op = "shutdown" /\ TickEnded => loop'.pc = "sleep"]_vars

\* C21: a schedule_task call that reports an error to its caller has
\* registered nothing: the task store is as it was before the call.
C21_FailedScheduleRegistersNothing ==
    [][api'.op = "schedule_task" /\ ops' = ops + 1
           /\ api'.result # "scheduled"
           => UNCHANGED <<tasks, theap>>]_vars

\* this step is a manual trigger of a one-shot task
ManualStep ==
    api'.op \in {"run_task", "execute_task"} /\ ops' = ops + 1
        /\ ~api'.exec.periodic

\* the manual trigger of this step has produced the success result
ManualSuccess ==
    \/ api'.op = "run_task" /\ api'.result = "executed"
    \/ api'.op = "execute_task" /\ api'.exec.ok

\* C22: a manual trigger of a scheduled one-shot task marks it completed
\* at once, whatever its run_time, produces the success result and, going
\* through the executor, exactly one execution record and no error; a
\* manual trigger of a missing name or of an entry that is not scheduled
\* changes no entry and produces the not-found result.
C22_ManualTrigger ==
    [][ManualStep
           => LET o == Get(tasks, api'.name)
              IN  IF CanRun(o)
                  THEN /\ theap'[o].status = "completed"
                       /\ ManualSuccess
                       /\ api'.exec.logs = 1
                       /\ api'.exec.errs = 0
                  ELSE /\ UNCHANGED <<tasks, theap>>
                       /\ ~ManualSuccess]_vars

\* C23: an execution of the self-optimization entry, whose collaborator
\* call raises, is reported as that of any periodic action that raises:
\* the fault reaches the except clause of execute_task, the error log gets
\* exactly one entry, and the execution is not recorded as successful.
C23_CycleFaultReachesExecutor ==
    \A x \in Executions :
        x.name = CycleName
            => x.fault = "action" /\ x.errs = 1 /\ x.logs = 0 /\ ~x.ok

\* C24: the loop does not invoke the action of an entry before the
\* entry's interval has elapsed since the add_periodic_task call that
\* registered it, also when that call replaced an entry of the same name
\* while a tick was scanning the registry.
C24_NoInvocationBeforeInterval ==
    [][\A o \in 1..Len(pheap) :
           pheap[o].h_lastFire = Never /\ pheap'[o].h_lastFire # Never
               => pheap'[o].h_lastFire
                      >= pheap[o].h_addedAt + pheap[o].interval]_vars

\* the scan's step on the next entry of the task store
ExamineStep == loop.pc = "tnext" /\ loop'.it.pos = loop.it.pos + 1

\* the entry that step examines
Examined == theap[tasks[loop.it.pos + 1].o]

\* the scan's step that marks an entry
MarkStep == loop.pc = "tmark" /\ loop'.pc = "tnext"

\* C25: a scan at time T finds due exactly the entries with status
\* scheduled and run_time <= T, run_time = T included; it marks only
\* entries that are scheduled; and the loop hands no entry to the executor
\* whose run_time is later than T.
C25_DueAtOrBeforeNow ==
    [][/\ ExamineStep
              => (loop'.pc = "tmark"
                     <=> /\ Examined.status = "scheduled"
                         /\ Examined.run_time <= loop.current_time)
       /\ MarkStep
              => theap[loop.obj].status = "scheduled" \/ theap' = theap
       /\ \A o \in hist'.handed \ hist.handed :
              theap[o].run_time <= loop.current_time]_vars

\* C26: an entry that is overdue and was never handed to the executor is
\* waiting in the list of the tick that marked it, also when schedule_task
\* or cancel_task changes the store during the scan: it is never left
\* behind.
C26_MarkedIsDispatched ==
    \A e \in Tasks :
        theap[e[2]].status = "overdue" /\ ~theap[e[2]].h_dispatched
            => \E i \in 1..Len(loop.overdue_tasks) :
                   loop.overdue_tasks[i] = e[1]

\* C27: a scan of the registries starts only when the loop is entered or
\* when time.sleep has returned after a full tick period, never straight
\* from the guard that has caught the fault of the scan before.
C27_SleepBetweenScans ==
    [][loop.pc = "check" /\ loop'.pc = "tnext" => loop.fault = "none"]_vars

\* C28: when the scan has faulted on one entry (a run_time or an interval
\* of the wrong type), no other one-shot task that the scan found due is
\* left marked and not handed to the executor.
C28_FaultOfOneEntrySparesOthers ==
    loop.fault = "TypeError"
        => \A e \in Tasks :
               theap[e[2]].status = "overdue" => theap[e[2]].h_dispatched

\* C29: for one scheduling of a one-shot task at most one run_task call
\* marks it completed and returns the success message: when the run_task
\* of the loop, having passed the status test, marks the entry, the entry
\* is not completed already.
C29_CompletedOnce ==
    [][loop.pc = "trun" /\ loop'.pc # "trun"
           => theap[loop.obj].status # "completed"]_vars

====
